---- MODULE Spec2Model ----
(***************************************************************************)
(* NoxScheduler (src/src/content.ts, lines 284-804): the frame-budgeted    *)
(* read/write scheduler of Nox smart mode, as a state machine.             *)
(*                                                                         *)
(* One action per handler: the public methods (seed, runCycle, destroy,    *)
(* patchShadow), the patched attachShadow, and the callbacks the class     *)
(* registers (IntersectionObserver, MutationObserver, queueMicrotask,      *)
(* requestAnimationFrame, requestIdleCallback or its setTimeout fallback). *)
(* Time is counted in ticks of 0.1 ms.                                     *)
(***************************************************************************)
EXTENDS Integers, Sequences, FiniteSets, TLC

\* ------------------------------------------------------------------------
\* Bounds of the model
\* ------------------------------------------------------------------------
NumNodes == 2
NumRoots == 1
MaxPending == 2
MaxFrames == 3
MaxCount == 1

\* NumNodes elements in the document (root 0) and one element inside each
\* of the NumRoots shadow roots.
Nodes == 1..(NumNodes + NumRoots)
Roots == 1..NumRoots
Home(n) == IF n <= NumNodes THEN 0 ELSE n - NumNodes
DocNodes == {n \in Nodes : Home(n) = 0}
NodesOf(r) == {n \in Nodes : Home(n) = r}

\* ------------------------------------------------------------------------
\* Configuration (DEFAULTS merged with the constructor argument)
\* ------------------------------------------------------------------------
readBudgetMs == 4
writeBudgetMs == 4
\* maxQueue is passed in the constructor's config; the default is 5000.
maxQueue == 1
FrameLimit == 60
PromoteBatch == 100

\* Thresholds on the luminance, in hundredths (DEFAULTS: 0.10 and 0.85).
darkThreshold == 10
brightThreshold == 85
observeResizeMinChildren == 10

Ticks(ms) == ms * 10
\* Cost of one classify() / one applyStable() on the injected clock, in ticks.
ReadCosts == {1, 30, 50}
WriteCosts == {1, 50}

\* ------------------------------------------------------------------------
\* Colours, luminance and the style fingerprint (lines 230-278)
\* ------------------------------------------------------------------------
\* A CSS colour value is the name of its notation and its arguments:
\* rgb(r, g, b), rgba(r, g, b, a), #hex digits, or anything else (a colour
\* function such as oklch(), a keyword such as red) with no arguments read.
Rgb(r, g, b) == [fn |-> "rgb", args |-> <<r, g, b>>]
Rgba(r, g, b, a) == [fn |-> "rgba", args |-> <<r, g, b, a>>]
Hex(digits) == [fn |-> "#", args |-> digits]
Other(name) == [fn |-> name, args |-> <<>>]

Null == <<>>

\* parseColor: the rgb()/rgba() pattern reads the first three numbers
\* (line 245: an alpha after them is not looked at), then #rgb and #rrggbb.
parseColor(color) ==
  IF color.fn \in {"rgb", "rgba"}
    THEN <<color.args[1], color.args[2], color.args[3]>>
  ELSE IF color.fn = "#" /\ Len(color.args) = 3
    THEN [i \in 1..3 |-> 16 * color.args[i] + color.args[i]]
  ELSE IF color.fn = "#" /\ Len(color.args) = 6
    THEN [i \in 1..3 |-> 16 * color.args[2 * i - 1] + color.args[2 * i]]
  ELSE Null

\* Luminance is counted in units of 0.00001.  Linear(v) is the linearised
\* sRGB channel of lines 232-235, rounded to that unit, for the channel
\* values the modelled pages use.
Channels == {0, 89, 90, 128, 237, 238, 255}

Linear(v) ==
  CASE v = 0 -> 0
    [] v = 89 -> 9990
    [] v = 90 -> 10224
    [] v = 128 -> 21586
    [] v = 237 -> 84687
    [] v = 238 -> 85499
    [] v = 255 -> 100000

\* line 237
luma(rgb) ==
  (2126 * Linear(rgb[1]) + 7152 * Linear(rgb[2]) + 722 * Linear(rgb[3])) \div 10000

\* A threshold given in hundredths, in units of luminance.
Units(t) == t * 1000

\* Mutant: the dark threshold compared with <=.
ToneOf_DarkAtThreshold(Y) ==
  IF Y <= Units(darkThreshold) THEN "already-dark"
  ELSE IF Y > Units(brightThreshold) THEN "bright-bg"
  ELSE "mid"

\* lines 550-556
ToneOf(Y) ==
  IF Y < Units(darkThreshold) THEN "already-dark"
  ELSE IF Y > Units(brightThreshold) THEN "bright-bg"
  ELSE "mid"

\* The part of a computed style classify() reads: backgroundColor and
\* backgroundImage ("none" or an image).  opacity, filter and mixBlendMode
\* are the same on every modelled element and are left out of the key.
Style(color, image) == [backgroundColor |-> color, backgroundImage |-> image]

styleKeyForTone(cs) ==
  <<cs.backgroundColor, IF cs.backgroundImage # "none" THEN "img" ELSE "">>

\* lines 537-556: the classification of a style on a cache miss
Tone(cs) ==
  LET bgColor == parseColor(cs.backgroundColor)
  IN  IF bgColor = Null THEN "mid" ELSE ToneOf(luma(bgColor))

\* What a browser computes for an element with no background of its own.
Transparent == Style(Rgba(0, 0, 0, 0), "none")

\* The computed style after applyStable wrote the background of a bright
\* element (line 578): var(--nox-surface, oklch(0.22 0 0)), no image.
Surface == Style(Other("oklch"), "none")

VARIABLES
  qVisible,            \* Set<Element> in insertion order
  qHidden,             \* Set<Element> in insertion order
  io,                  \* per node: "off" | "new" | "in" | "out"
  mo,                  \* main MutationObserver is observing
  ro,                  \* targets of the ResizeObserver
  shadowMode,          \* per root: "none" | "open" | "closed"
  shadowObservers,     \* keys of the Map<ShadowRoot, MutationObserver>
  strayObservers,      \* roots with a connected observer the map lost
  frameId, rafPending, \* last rAF handle; number of frame callbacks pending
  idleId, idlePending, \* last idle handle; number of idle callbacks pending
  backpressure,
  microtaskScheduled,
  consecutiveFrames,
  metrics,
  html,                \* per node: el instanceof HTMLElement
  style,               \* per node: the style getComputedStyle returns
  cache,               \* WeakMap<Element, CacheEntry>: Null or an entry
  dirty,               \* history: class/style attribute set since classify
  attrs,               \* per element: its class list and inline style declarations
  last,                \* history: what classify last returned, see Phases
  resized,             \* history: per element, its child count at its last size change
  nativeIdle,          \* window.requestIdleCallback exists
  attached,            \* history: per host, the last call of the patched attachShadow
  log,                 \* history: the classify and applyStable calls of the last runCycle
  destroyed,           \* history: destroy() has been entered
  threw,               \* history: a call ended with an exception
  streak,              \* history: consecutive runCycle calls, see RunCycle
  settled              \* the page and the caller have gone quiet

vars == <<qVisible, qHidden, io, mo, ro, shadowMode, shadowObservers,
          strayObservers, frameId, rafPending, idleId, idlePending,
          backpressure, microtaskScheduled, consecutiveFrames, metrics,
          html, style, cache, dirty, attrs, last,
          resized, nativeIdle, attached, log, destroyed, threw, streak, settled>>

\* The page's elements as classify() sees them, the cache, and the
\* history of classifications.
tones == <<html, style, cache, dirty, attrs, last>>

\* ------------------------------------------------------------------------
\* Helpers on insertion-ordered sets
\* ------------------------------------------------------------------------
Range(s) == {s[i] : i \in 1..Len(s)}
Min(a, b) == IF a < b THEN a ELSE b

\* Set.prototype.add: appends unless present.
SetAdd(s, x) == IF x \in Range(s) THEN s ELSE Append(s, x)

\* Set.prototype.delete
SetDelete(s, x) == SelectSeq(s, LAMBDA y : y # x)

\* Array.prototype.slice(0, k)
Slice(s, k) == SubSeq(s, 1, Min(k, Len(s)))

\* The rest of an insertion-ordered set after its first k members went.
DropFirst(s, k) == SubSeq(s, k + 1, Len(s))

\* A handle field (frameId, idleId) is "none" while undefined, "armed"
\* while the callback it names is pending, and "spent" once that callback
\* has run or been cancelled.  The callbacks of one kind are all the same
\* closure and run first in, first out, so the pending ones are counted;
\* the field always names the one requested last.
Armed(id) == id = "armed"

\* The field after the oldest of the pending callbacks was taken to run.
AfterFire(id, pending) == IF pending = 1 /\ Armed(id) THEN "spent" ELSE id

\* cancelAnimationFrame / cancelIdleCallback / clearTimeout of the handle
Cancel(pending, id) == IF Armed(id) THEN pending - 1 ELSE pending

\* Mutant: a counter that is cleared when it would pass MaxCount.
Bump_Reset(x, k) == IF x + k > MaxCount THEN 0 ELSE x + k

\* A counter that starts over once it passes MaxCount.
Bump_Wrapping(x, k) == (x + k) % (MaxCount + 1)

\* A metric counter, kept exact up to MaxCount.
Bump(x, k) == Min(x + k, MaxCount)

\* The value of resized[n] while n has not changed size.
Never == -1

\* getMetrics() (lines 487-489): a shallow copy of the metrics object.
getMetrics == [f \in DOMAIN metrics |-> metrics[f]]

\* ------------------------------------------------------------------------
\* Init: the state the constructor leaves (lines 318-373)
\* ------------------------------------------------------------------------
\* findExistingShadows patches every open shadow root already on the page
\* and seeds the elements inside it that match the shadow selectors.
\* existing: the open shadow roots on the page; seeded: their elements
\* that patchShadow enqueues.
InitWith(existing, seeded) ==
  /\ qVisible = <<>>
  /\ qHidden = <<>>
  /\ shadowMode = [r \in Roots |-> IF r \in existing THEN "open" ELSE "none"]
  /\ shadowObservers = existing
  /\ io = [n \in Nodes |-> IF n \in seeded THEN "new" ELSE "off"]
  /\ microtaskScheduled = (seeded # {})
  /\ mo = TRUE
  /\ ro = {}
  /\ strayObservers = {}
  /\ frameId = "none"
  /\ rafPending = 0
  /\ idleId = "none"
  /\ idlePending = 0
  /\ backpressure = FALSE
  /\ consecutiveFrames = 0
  /\ metrics = [reads |-> 0, writes |-> 0, cacheHits |-> 0,
                queuedVisible |-> 0, queuedHidden |-> 0]
  /\ cache = [n \in Nodes |-> Null]
  /\ dirty = [n \in Nodes |-> FALSE]
  /\ nativeIdle \in BOOLEAN
  /\ destroyed = FALSE
  /\ threw = FALSE
  /\ streak = 0
  /\ settled = FALSE

\* A page of elements that are not HTMLElements (SVG, MathML): classify()
\* returns at line 524 and applyStable() at line 568, the styles and the
\* cache are neither read nor written.  The queues, the observers and the
\* callbacks never read them either.
PlainPage ==
  /\ html = [n \in Nodes |-> FALSE]
  /\ style = [n \in Nodes |-> Transparent]
  /\ last = [n \in {} |-> Null]
  /\ attached = [h \in {} |-> Null]
  /\ log = [x \in {} |-> <<>>]
  /\ resized = [n \in {} |-> Never]
  /\ attrs = [n \in {} |-> Null]

\* A page without shadow roots.
Init == InitWith({}, {}) /\ PlainPage

\* ------------------------------------------------------------------------
\* enqueue (lines 591-600) applied to each member of S
\* ------------------------------------------------------------------------
Queued == Range(qVisible) \cup Range(qHidden)

\* Mutant: enqueue without its test at line 593.
Fresh_Unchecked(S) == S

\* The members of S enqueue() does not return early on.
Fresh(S) == {n \in S : n \notin Queued}

\* io.observe(el): a target not yet observed gets an initial entry.
Observe(S) ==
  [n \in DOMAIN io |-> IF n \in Fresh(S) /\ io[n] = "off" THEN "new" ELSE io[n]]

\* ------------------------------------------------------------------------
\* destroy (lines 494-514)
\* ------------------------------------------------------------------------
\* Without window.requestIdleCallback the handle in idleId is a setTimeout
\* handle and the global cancelIdleCallback does not exist: line 508 raises
\* a ReferenceError and the timer stays armed.
CancelIdleThrows == ~nativeIdle /\ idleId # "none"

\* fid, raf0: frameId and the frame callbacks pending when destroy is
\* entered.  The fields keep their handles (lines 504-509 clear nothing).
DestroyEffects(fid, raf0) ==
  /\ io' = [n \in DOMAIN io |-> "off"]
  /\ mo' = FALSE
  /\ ro' = {}
  /\ shadowObservers' = {}
  /\ rafPending' = Cancel(raf0, fid)
  /\ frameId' = IF fid = "none" THEN "none" ELSE "spent"
  /\ idlePending' = IF CancelIdleThrows THEN idlePending ELSE Cancel(idlePending, idleId)
  /\ idleId' = IF CancelIdleThrows \/ idleId = "none" THEN idleId ELSE "spent"
  /\ threw' = (threw \/ CancelIdleThrows)
  /\ destroyed' = TRUE

Destroy ==
  /\ ~settled
  /\ DestroyEffects(frameId, rafPending)
  /\ UNCHANGED <<qVisible, qHidden, shadowMode, strayObservers,
                 backpressure, microtaskScheduled, consecutiveFrames, metrics,
                 tones, resized, nativeIdle, attached, log, streak, settled>>

\* ------------------------------------------------------------------------
\* seed (lines 382-412): S is what the selectors match in the document
\* ------------------------------------------------------------------------
Seed(S) ==
  /\ ~settled
  /\ io' = Observe(S)
  /\ microtaskScheduled' = (microtaskScheduled \/ Fresh(S) # {})
  /\ UNCHANGED <<qVisible, qHidden, mo, ro, shadowMode, shadowObservers,
                 strayObservers, frameId, rafPending, idleId, idlePending,
                 backpressure, consecutiveFrames, metrics, tones, resized, nativeIdle, attached, log,
                 destroyed, threw, streak, settled>>

\* ------------------------------------------------------------------------
\* scheduleWork (lines 605-640)
\* ------------------------------------------------------------------------
\* Callbacks the browser runs as tasks (intersection, frame, idle) start
\* only once the microtask queue is empty.
TaskBoundary == ~microtaskScheduled

\* Mutant: engages already at the ceiling.
Engages_AtCeiling(total) == total >= maxQueue

\* line 614
Engages(total) == total > maxQueue

\* Mutant: released as soon as the total is back at the ceiling.
ReleasesAt_NoBand(total, mq) == total <= mq

\* line 622 under a ceiling of mq: totalQueued < mq * 0.8
ReleasesAt(total, mq) == 10 * total < 8 * mq

\* line 622: totalQueued < maxQueue * 0.8
Releases(total) == ReleasesAt(total, maxQueue)

\* Mutant: backpressure engages without line 616.
Microtask_StaysConnected ==
  /\ microtaskScheduled
  /\ microtaskScheduled' = FALSE
  /\ LET totalQueued == Len(qVisible) + Len(qHidden)
     IN  IF Engages(totalQueued)
           THEN /\ mo' = mo
                /\ backpressure' = TRUE
           ELSE IF backpressure /\ Releases(totalQueued)
                  THEN mo' = TRUE /\ backpressure' = FALSE
                  ELSE UNCHANGED <<mo, backpressure>>
  /\ IF frameId = "none" /\ Len(qVisible) > 0
       THEN /\ frameId' = "armed"
            /\ rafPending' = rafPending + 1
       ELSE UNCHANGED <<frameId, rafPending>>
  /\ UNCHANGED <<qVisible, qHidden, io, ro, shadowMode, shadowObservers,
                 strayObservers, idleId, idlePending, consecutiveFrames,
                 metrics, tones, resized, nativeIdle, attached, log, destroyed, threw, streak, settled>>

\* The callback handed to queueMicrotask (lines 609-639).
Microtask ==
  /\ microtaskScheduled
  /\ microtaskScheduled' = FALSE
  /\ LET totalQueued == Len(qVisible) + Len(qHidden)
     IN  IF Engages(totalQueued)
           THEN /\ mo' = IF ~backpressure THEN FALSE ELSE mo
                /\ backpressure' = TRUE
           ELSE IF backpressure /\ Releases(totalQueued)
                  THEN mo' = TRUE /\ backpressure' = FALSE
                  ELSE UNCHANGED <<mo, backpressure>>
  /\ IF frameId = "none" /\ Len(qVisible) > 0
       THEN /\ frameId' = "armed"
            /\ rafPending' = rafPending + 1
       ELSE UNCHANGED <<frameId, rafPending>>
  /\ UNCHANGED <<qVisible, qHidden, io, ro, shadowMode, shadowObservers,
                 strayObservers, idleId, idlePending, consecutiveFrames,
                 metrics, tones, resized, nativeIdle, attached, log, destroyed, threw, streak, settled>>

\* ------------------------------------------------------------------------
\* IntersectionObserver callback (lines 325-341)
\* ------------------------------------------------------------------------
\* Mutant: the entry is added to its queue without leaving the other one.
IOEntry_NoDelete(q, e) ==
  IF e[2]
    THEN [v |-> SetAdd(q.v, e[1]), h |-> q.h]
    ELSE [v |-> q.v, h |-> SetAdd(q.h, e[1])]

\* Mutant: an exit entry is ignored.
IOEntry_EnterOnly(q, e) ==
  IF e[2]
    THEN [v |-> SetAdd(q.v, e[1]), h |-> SetDelete(q.h, e[1])]
    ELSE q

\* One entry <<target, isIntersecting>> (lines 328-336).
IOEntry(q, e) ==
  IF e[2]
    THEN [v |-> SetAdd(q.v, e[1]), h |-> SetDelete(q.h, e[1])]
    ELSE [v |-> SetDelete(q.v, e[1]), h |-> SetAdd(q.h, e[1])]

RECURSIVE IOEntries(_, _)
IOEntries(q, es) ==
  IF es = <<>> THEN q ELSE IOEntries(IOEntry(q, Head(es)), Tail(es))

\* The batches the browser can deliver: distinct observed targets, each
\* with its initial state or with the opposite of the state last reported.
EntryOk(e) ==
  \/ io[e[1]] = "new"
  \/ io[e[1]] = "in" /\ ~e[2]
  \/ io[e[1]] = "out" /\ e[2]

Entries == {e \in Nodes \X BOOLEAN : EntryOk(e)}

Batches ==
  {es \in UNION {[1..k -> Entries] : k \in 1..Cardinality({n \in Nodes : io[n] # "off"})} :
     \A i, j \in 1..Len(es) : i # j => es[i][1] # es[j][1]}

\* Mutant: the callback classifies the head of the visible queue itself
\* instead of leaving it to the frame callback.
IOCallback_Synchronous(es) ==
  /\ TaskBoundary
  /\ settled => \A i \in 1..Len(es) : io[es[i][1]] = "new"
  /\ LET q == IOEntries([v |-> qVisible, h |-> qHidden], es)
         k == IF Len(q.v) > 0 THEN 1 ELSE 0
     IN  /\ qVisible' = DropFirst(q.v, k)
         /\ qHidden' = q.h
         /\ metrics' = [metrics EXCEPT !.reads = Bump(metrics.reads, k)]
  /\ io' = [n \in DOMAIN io |->
              IF \E i \in 1..Len(es) : es[i][1] = n
                THEN LET i == CHOOSE i \in 1..Len(es) : es[i][1] = n
                     IN  IF es[i][2] THEN "in" ELSE "out"
                ELSE io[n]]
  /\ microtaskScheduled' = TRUE
  /\ UNCHANGED <<mo, ro, shadowMode, shadowObservers, strayObservers, frameId,
                 rafPending, idleId, idlePending, backpressure,
                 consecutiveFrames, tones, resized, nativeIdle, attached, log, destroyed, threw,
                 streak, settled>>

IOCallback(es) ==
  /\ TaskBoundary
  /\ settled => \A i \in 1..Len(es) : io[es[i][1]] = "new"
  /\ LET q == IOEntries([v |-> qVisible, h |-> qHidden], es)
     IN  qVisible' = q.v /\ qHidden' = q.h
  /\ io' = [n \in DOMAIN io |->
              IF \E i \in 1..Len(es) : es[i][1] = n
                THEN LET i == CHOOSE i \in 1..Len(es) : es[i][1] = n
                     IN  IF es[i][2] THEN "in" ELSE "out"
                ELSE io[n]]
  /\ microtaskScheduled' = TRUE
  /\ UNCHANGED <<mo, ro, shadowMode, shadowObservers, strayObservers, frameId,
                 rafPending, idleId, idlePending, backpressure,
                 consecutiveFrames, metrics, tones, resized, nativeIdle, attached, log, destroyed, threw,
                 streak, settled>>

\* ------------------------------------------------------------------------
\* scheduleIdleWork (lines 645-674)
\* ------------------------------------------------------------------------
\* line 646
IdleNoOp(id, qh) == id # "none" \/ Len(qh) = 0

\* Mutant: slice(0, 99).
ToPromote_OneLess(qh) == Slice(qh, PromoteBatch - 1)

\* line 662
ToPromote(qh) == Slice(qh, PromoteBatch)

\* Set.prototype.add of each member of els (which has no duplicates), in
\* order (lines 663-666).
AddAll(q, els) == q \o SelectSeq(els, LAMBDA x : x \notin Range(q))

\* The callback handed to requestIdleCallback (lines 658-673).
IdleCallback ==
  /\ TaskBoundary
  /\ idlePending > 0
  /\ LET toPromote == ToPromote(qHidden)
         qh == DropFirst(qHidden, Len(toPromote))
         qv == AddAll(qVisible, toPromote)
         left == idlePending - 1
     IN  /\ qHidden' = qh
         /\ qVisible' = qv
         /\ microtaskScheduled' = (Len(qv) > 0)
         /\ IF Len(qv) = 0 /\ Len(qh) > 0 /\ ~IdleNoOp("none", qh)
              THEN idleId' = "armed" /\ idlePending' = left + 1
              ELSE idleId' = "none" /\ idlePending' = left
  /\ UNCHANGED <<io, mo, ro, shadowMode, shadowObservers, strayObservers,
                 frameId, rafPending, backpressure, consecutiveFrames, metrics,
                 tones, resized, nativeIdle, attached, log, destroyed, threw, streak, settled>>

\* ------------------------------------------------------------------------
\* runCycle (lines 417-482)
\* ------------------------------------------------------------------------
\* line 419, on the value before the increment
BreakerTrips(cf) == cf > FrameLimit

\* Mutant: the loop without its budget check.
ReadLoop_NoBudget(n, read, elapsed, c) == n

\* READ loop (lines 438-445): n queued, c ticks per classify().
RECURSIVE ReadLoop(_, _, _, _)
ReadLoop(n, read, elapsed, c) ==
  IF read = n \/ elapsed > Ticks(readBudgetMs)
    THEN read
    ELSE ReadLoop(n, read + 1, elapsed + c, c)

ReadCount(n, c) == ReadLoop(n, 0, 0, c)

\* WRITE loop (lines 452-457): n pairs, w ticks per applyStable().
RECURSIVE WriteLoop(_, _, _, _)
WriteLoop(n, written, elapsed, w) ==
  IF written = n \/ elapsed > Ticks(writeBudgetMs)
    THEN written
    ELSE WriteLoop(n, written + 1, elapsed + w, w)

WriteCount(n, w) == WriteLoop(n, 0, 0, w)

\* The clock over one runCycle entered with the visible queue as it is:
\* the costs that tell the outcomes of the two loops apart (of the costs
\* under which a loop handles the same number of nodes, the least).
Clocks ==
  LET reads == [c \in ReadCosts |-> ReadCount(Len(qVisible), c)]
      writes == [c \in ReadCosts |-> [w \in WriteCosts |-> WriteCount(reads[c], w)]]
  IN  {cw \in ReadCosts \X WriteCosts :
         /\ \A d \in ReadCosts : reads[d] = reads[cw[1]] => cw[1] <= d
         /\ \A d \in WriteCosts :
              writes[cw[1]][d] = writes[cw[1]][cw[2]] => cw[2] <= d}

\* classify (lines 523-562) on the state as it is.  key: the fingerprint
\* of the element's style now.
Key(n) == styleKeyForTone(style[n])

\* line 531
Hit(n) == html[n] /\ cache[n] # Null /\ cache[n].styleKey = Key(n)

Classify(n) ==
  IF ~html[n] THEN "mid"
  ELSE IF Hit(n) THEN cache[n].classification
  ELSE Tone(style[n])

\* lines 541 and 559
CacheAfter(n) ==
  IF html[n] /\ ~Hit(n)
    THEN [classification |-> Tone(style[n]), styleKey |-> Key(n)]
    ELSE cache[n]

\* applyStable (lines 567-586): only a bright HTMLElement gets a new
\* background.
StyleAfter(n) ==
  IF html[n] /\ Classify(n) = "bright-bg" THEN Surface ELSE style[n]

\* An element's attributes as applyStable touches them: the class list and
\* the inline declarations of background and color (Null while the
\* property is not declared inline).
Declared(value, priority) == [value |-> value, priority |-> priority]

SurfaceValue == "var(--nox-surface, oklch(0.22 0 0))"
TextValue == "var(--nox-text, oklch(0.92 0 0))"

\* Mutant: the overrides set without a priority.
applyStable_NoPriority(el, isHTML, classification) ==
  IF ~isHTML THEN el
  ELSE CASE classification = "already-dark" ->
              [el EXCEPT !.classes = @ \cup {"nox-no-filter"}]
         [] classification = "bright-bg" ->
              [classes |-> el.classes \cup {"nox-bright"},
               inline |-> [background |-> Declared(SurfaceValue, ""),
                           color |-> Declared(TextValue, "")]]
         [] classification = "mid" -> el

\* applyStable (lines 567-586) on the attributes el of an element.
applyStable(el, isHTML, classification) ==
  IF ~isHTML THEN el
  ELSE CASE classification = "already-dark" ->
              [el EXCEPT !.classes = @ \cup {"nox-no-filter"}]
         [] classification = "bright-bg" ->
              [classes |-> el.classes \cup {"nox-bright"},
               inline |-> [background |-> Declared(SurfaceValue, "important"),
                           color |-> Declared(TextValue, "important")]]
         [] classification = "mid" -> el

\* The READ phase over the elements of R and the WRITE phase over those
\* of W.  For the elements in its domain, last[n] records what
\* classify(n) returned and under which fingerprint, until the cache
\* entry of n is deleted.
Phases(R, W) ==
  /\ cache' = [n \in DOMAIN cache |-> IF n \in R THEN CacheAfter(n) ELSE cache[n]]
  /\ style' = [n \in DOMAIN style |-> IF n \in W THEN StyleAfter(n) ELSE style[n]]
  /\ dirty' = [n \in DOMAIN dirty |-> IF n \in R THEN FALSE ELSE dirty[n]]
  /\ attrs' = [n \in DOMAIN attrs |->
                 IF n \in W THEN applyStable(attrs[n], html[n], Classify(n)) ELSE attrs[n]]
  /\ last' = [n \in DOMAIN last |->
                IF n \in R
                  THEN [classification |-> Classify(n), styleKey |-> Key(n)]
                  ELSE last[n]]
  /\ html' = html

\* toWrite as the READ loop leaves it (lines 436-445): the first k
\* elements of the visible queue, each with what classify() returned, in
\* the order they were read.
ToWrite(k) == [i \in 1..k |-> <<qVisible[i], Classify(qVisible[i])>>]

\* Mutant: the WRITE loop taking the pairs from the end of toWrite.
Written_FromEnd(toWrite, j) == SubSeq(toWrite, Len(toWrite) - j + 1, Len(toWrite))

\* The pairs the WRITE loop applies before it breaks (lines 452-457): it
\* walks toWrite from the front and has budget for j of them.
Written(toWrite, j) == SubSeq(toWrite, 1, j)

Elements(pairs) == {pairs[i][1] : i \in 1..Len(pairs)}

Call(op, pair) == [op |-> op, el |-> pair[1], classification |-> pair[2]]

\* Mutant: each element written as soon as it is read.
CycleLog_Interleaved(toWrite, written) ==
  [i \in 1..(Len(toWrite) + Len(written)) |->
     IF i <= 2 * Len(written)
       THEN IF i % 2 = 1 THEN Call("classify", toWrite[(i + 1) \div 2])
                         ELSE Call("applyStable", written[i \div 2])
       ELSE Call("classify", toWrite[i - Len(written)])]

\* The calls of one cycle in the order the two loops make them: the READ
\* loop ends (line 445) before the WRITE loop starts (line 452).
CycleLog(toWrite, written) ==
  [i \in 1..Len(toWrite) |-> Call("classify", toWrite[i])]
    \o [i \in 1..Len(written) |-> Call("applyStable", written[i])]

\* streak: how many runCycle calls in a row neither found nor left the
\* visible queue empty.
NextStreak(qv) ==
  IF Len(qVisible) = 0 \/ Len(qv) = 0 THEN 0 ELSE streak + 1

\* fid, raf0: frameId and the frame callbacks pending when runCycle is
\* entered; S: what seed() matches; c, w: the clock's cost per read and
\* per write; d: what the clock shows between line 435, where readStart
\* is taken, and the first test of line 439.
RunCycleAt(seed, S, d, c, w, fid, raf0) ==
  IF BreakerTrips(consecutiveFrames)
    THEN /\ consecutiveFrames' = consecutiveFrames + 1
         /\ DestroyEffects(fid, raf0)
         /\ streak' = NextStreak(qVisible)
         /\ log' = [x \in DOMAIN log |-> <<>>]
         /\ UNCHANGED <<qVisible, qHidden, shadowMode, strayObservers,
                        backpressure, microtaskScheduled, metrics,
                        tones, resized, nativeIdle, attached, settled>>
    ELSE IF Len(qVisible) = 0 /\ ~seed
    THEN /\ consecutiveFrames' = 0
         /\ rafPending' = raf0
         /\ frameId' = fid
         /\ streak' = 0
         /\ log' = [x \in DOMAIN log |-> <<>>]
         /\ UNCHANGED <<qVisible, qHidden, io, mo, ro, shadowMode,
                        shadowObservers, strayObservers, idleId,
                        idlePending, backpressure, microtaskScheduled, metrics,
                        tones, resized, nativeIdle, attached, destroyed, threw, settled>>
    ELSE LET k == ReadLoop(Len(qVisible), 0, d, c)
             j == WriteCount(k, w)
             qv == DropFirst(qVisible, k)
             toWrite == ToWrite(k)
             written == Written(toWrite, j)
         IN  /\ io' = Observe(S)
             /\ microtaskScheduled' = (microtaskScheduled \/ Fresh(S) # {})
             /\ qVisible' = qv
             /\ Phases(Elements(toWrite), Elements(written))
             /\ log' = [x \in DOMAIN log |-> CycleLog(toWrite, written)]
             /\ metrics' = [reads |-> Bump(metrics.reads, k),
                            writes |-> Bump(metrics.writes, j),
                            cacheHits |-> Bump(metrics.cacheHits,
                                               Cardinality({n \in Range(Slice(qVisible, k)) : Hit(n)})),
                            queuedVisible |-> Len(qv),
                            queuedHidden |-> Len(qHidden)]
             /\ streak' = NextStreak(qv)
             /\ IF Len(qv) > 0
                  THEN /\ frameId' = "armed"
                       /\ rafPending' = raf0 + 1
                       /\ consecutiveFrames' = consecutiveFrames + 1
                       /\ UNCHANGED <<idleId, idlePending>>
                  ELSE /\ consecutiveFrames' = 0
                       /\ rafPending' = raf0
                       /\ frameId' = fid
                       /\ IF IdleNoOp(idleId, qHidden)
                            THEN UNCHANGED <<idleId, idlePending>>
                            ELSE /\ idleId' = "armed"
                                 /\ idlePending' = idlePending + 1
             /\ UNCHANGED <<qHidden, mo, ro, shadowMode, shadowObservers,
                            strayObservers, backpressure, resized, nativeIdle, attached,
                            destroyed, threw, settled>>

\* runCycle under a clock that shows the same time at line 435 and at the
\* first test of line 439.
RunCycleBody(seed, S, c, w, fid, raf0) == RunCycleAt(seed, S, 0, c, w, fid, raf0)

\* runCycle(seed) called by the owner of the scheduler.
RunCycle(seed, S, c, w) ==
  /\ ~settled
  /\ rafPending < MaxPending
  /\ consecutiveFrames < MaxFrames
  /\ seed \/ S = {}
  /\ RunCycleBody(seed, S, c, w, frameId, rafPending)

\* The callback handed to requestAnimationFrame (lines 477 and 637).
FrameCallback(c, w) ==
  /\ TaskBoundary
  /\ rafPending > 0
  /\ consecutiveFrames < MaxFrames
  /\ RunCycleBody(FALSE, {}, c, w, AfterFire(frameId, rafPending), rafPending - 1)

\* ------------------------------------------------------------------------
\* onMutate (lines 679-697)
\* ------------------------------------------------------------------------
\* obs = 0 is the main observer, obs = r an observer on shadow root r.
Observing(obs) ==
  IF obs = 0 THEN mo ELSE obs \in shadowObservers \cup strayObservers

\* One batch of childList records: S are the added elements, with their
\* descendants, under the observer's root.  An attributes record is
\* AttributeChange below.
OnMutate(obs, S) ==
  /\ ~settled
  /\ Observing(obs)
  /\ S # {} /\ S \subseteq NodesOf(obs)
  /\ io' = Observe(S)
  /\ microtaskScheduled' = (microtaskScheduled \/ Fresh(S) # {})
  /\ UNCHANGED <<qVisible, qHidden, mo, ro, shadowMode, shadowObservers,
                 strayObservers, frameId, rafPending, idleId, idlePending,
                 backpressure, consecutiveFrames, metrics, tones, resized, nativeIdle, attached, log,
                 destroyed, threw, streak, settled>>

\* The page sets the class or the style attribute of element n, and the
\* style computed for n is s afterwards (s may be the style it had).  An
\* observer connected over n's root delivers the attribute record to
\* onMutate (lines 689-694); a disconnected one records nothing.
AttributeChange(n, s) ==
  /\ ~settled
  /\ style' = [style EXCEPT ![n] = s]
  /\ dirty' = [dirty EXCEPT ![n] = TRUE]
  /\ IF Observing(Home(n))
       THEN /\ cache' = [cache EXCEPT ![n] = Null]
            /\ last' = [m \in DOMAIN last |-> IF m = n THEN Null ELSE last[m]]
            /\ io' = Observe({n})
            /\ microtaskScheduled' = (microtaskScheduled \/ Fresh({n}) # {})
       ELSE UNCHANGED <<cache, last, io, microtaskScheduled>>
  /\ UNCHANGED <<qVisible, qHidden, mo, ro, shadowMode, shadowObservers,
                 strayObservers, frameId, rafPending, idleId, idlePending,
                 backpressure, consecutiveFrames, metrics, html, attrs, resized, nativeIdle, attached, log,
                 destroyed, threw, streak, settled>>

\* The style computed for element n becomes s with none of its attributes
\* touched (a stylesheet rule, an inherited value, a state such as :hover).
Restyle(n, s) ==
  /\ ~settled
  /\ s # style[n]
  /\ style' = [style EXCEPT ![n] = s]
  /\ UNCHANGED <<qVisible, qHidden, io, mo, ro, shadowMode, shadowObservers,
                 strayObservers, frameId, rafPending, idleId, idlePending,
                 backpressure, microtaskScheduled, consecutiveFrames, metrics,
                 html, cache, dirty, attrs, last, resized, nativeIdle, attached, log, destroyed, threw,
                 streak, settled>>

\* ------------------------------------------------------------------------
\* The ResizeObserver and its callback (lines 352-362)
\* ------------------------------------------------------------------------
\* line 357
LargeEnough(children) == children >= observeResizeMinChildren

\* Element n, which has c direct children, changes size.  The
\* ResizeObserver reports targets handed to its observe() only, the set
\* ro; its callback enqueues a target that is large enough.
Resize(n, c) ==
  /\ ~settled
  /\ resized' = [m \in DOMAIN resized |-> IF m = n THEN c ELSE resized[m]]
  /\ IF n \in ro /\ LargeEnough(c)
       THEN /\ io' = Observe({n})
            /\ microtaskScheduled' = (microtaskScheduled \/ Fresh({n}) # {})
       ELSE UNCHANGED <<io, microtaskScheduled>>
  /\ UNCHANGED <<qVisible, qHidden, mo, ro, shadowMode, shadowObservers,
                 strayObservers, frameId, rafPending, idleId, idlePending,
                 backpressure, consecutiveFrames, metrics, tones, nativeIdle,
                 attached, log, destroyed, threw, streak, settled>>

\* ------------------------------------------------------------------------
\* patchShadow (lines 702-765) and the attachShadow hook (lines 780-791)
\* ------------------------------------------------------------------------
\* S: what the shadow selectors match inside root r.
PatchEffects(r, S) ==
  /\ strayObservers' = IF r \in shadowObservers
                         THEN strayObservers \cup {r} ELSE strayObservers
  /\ shadowObservers' = shadowObservers \cup {r}
  /\ io' = Observe(S)
  /\ microtaskScheduled' = (microtaskScheduled \/ Fresh(S) # {})

PatchShadow(r, S) ==
  /\ ~settled
  /\ shadowMode[r] # "none"
  /\ S \subseteq NodesOf(r)
  /\ PatchEffects(r, S)
  /\ UNCHANGED <<qVisible, qHidden, mo, ro, shadowMode, frameId, rafPending,
                 idleId, idlePending, backpressure, consecutiveFrames, metrics,
                 tones, resized, nativeIdle, attached, log, destroyed, threw, streak, settled>>

\* Element.prototype.attachShadow as the browser defines it (orig, line
\* 782): it creates the root of a host that has none and raises a
\* NotSupportedError on a host that has one.
orig(host, init) ==
  IF shadowMode[host] = "none"
    THEN [root |-> host, mode |-> init.mode, error |-> ""]
    ELSE [root |-> 0, mode |-> "none", error |-> "NotSupportedError"]

\* A hook that rebuilds the init dictionary from the mode alone.
Delegate_ModeOnly(this, init) ==
  [receiver |-> this, init |-> [mode |-> init.mode, delegatesFocus |-> FALSE]]

\* The receiver and the argument line 785 hands to orig.
Delegate(this, init) == [receiver |-> this, init |-> init]

\* What the hook gives back (line 789); an exception of orig leaves the
\* hook at line 785 as it is.
Return(root) == root

ShadowInits == [mode : {"open", "closed"}, delegatesFocus : BOOLEAN]

\* The page calls host.attachShadow(init); the host of root r is r.
AttachShadow(r, init, S) ==
  LET call == Delegate(r, init)
      root == orig(call.receiver, call.init)
      created == root.error = ""
  IN  /\ ~settled
      /\ shadowMode' = IF created
                         THEN [shadowMode EXCEPT ![root.root] = root.mode]
                         ELSE shadowMode
      /\ IF created /\ init.mode = "open"
           THEN S \subseteq NodesOf(root.root) /\ PatchEffects(root.root, S)
           ELSE S = {} /\ UNCHANGED <<strayObservers, shadowObservers, io, microtaskScheduled>>
      /\ attached' = [h \in DOMAIN attached |->
                        IF h = r
                          THEN [receiver |-> r, init |-> init, call |-> call,
                                orig |-> root, result |-> Return(root),
                                destroyed |-> destroyed]
                          ELSE attached[h]]
      /\ UNCHANGED <<qVisible, qHidden, mo, ro, frameId, rafPending, idleId,
                     idlePending, backpressure, consecutiveFrames, metrics,
                     tones, resized, nativeIdle, log, destroyed, threw, streak, settled>>

\* ------------------------------------------------------------------------
\* The environment goes quiet: from here on only callbacks already armed
\* (microtask, initial intersection entries, frame, idle) run.
\* ------------------------------------------------------------------------
Settle ==
  /\ ~settled
  /\ settled' = TRUE
  /\ UNCHANGED <<qVisible, qHidden, io, mo, ro, shadowMode, shadowObservers,
                 strayObservers, frameId, rafPending, idleId, idlePending,
                 backpressure, microtaskScheduled, consecutiveFrames, metrics,
                 tones, resized, nativeIdle, attached, log, destroyed, threw, streak>>

IOInitial ==
  \E es \in Batches :
    /\ \A i \in 1..Len(es) : io[es[i][1]] = "new"
    /\ IOCallback(es)

FrameFires == \E cw \in Clocks : FrameCallback(cw[1], cw[2])

\* What the selectors of seed() can match, told apart by what enqueue does
\* with it: an element already queued is skipped (line 592), one already
\* observed only triggers scheduleWork, and an unobserved one also gets an
\* initial entry.
SeedSets ==
  LET fresh == Fresh(DocNodes)
      off == {n \in fresh : io[n] = "off"}
  IN  (SUBSET off) \cup {{n} : n \in fresh \ off}

Seeds == \E S \in SeedSets : Seed(S)

RunCycles ==
  \E seed \in BOOLEAN, cw \in Clocks :
    \E S \in (IF seed THEN SeedSets ELSE {{}}) :
      RunCycle(seed, S, cw[1], cw[2])

PatchShadows == \E r \in Roots : \E S \in SUBSET NodesOf(r) : PatchShadow(r, S)

AttachShadows ==
  \E r \in Roots, init \in ShadowInits :
    \E S \in SUBSET NodesOf(r) : AttachShadow(r, init, S)

Mutations ==
  \E obs \in {0} \cup Roots : \E S \in SUBSET NodesOf(obs) : OnMutate(obs, S)

IOCallbacks == \E es \in Batches : IOCallback(es)

\* Spec: the scheduler on a page without shadow roots, driven by its owner
\* and by its callbacks, with runs of consecutive cycles cut at MaxFrames.
Next ==
  \/ Seeds
  \/ RunCycles
  \/ Mutations
  \/ IOCallbacks
  \/ Microtask
  \/ FrameFires
  \/ IdleCallback

\* Nothing in Spec cancels an idle callback: the native primitive stands
\* for both.
SpecInit == Init /\ nativeIdle

Spec == SpecInit /\ [][Next]_vars

\* TeardownSpec: Spec, and the owner may call destroy() at any point.
TeardownNext == Next \/ Destroy

TeardownSpec == Init /\ [][TeardownNext]_vars

\* LongSpec: the scheduler left to its callbacks (no call from its owner
\* besides seed), with runs of consecutive cycles of any length.
LongFrameCallback(c, w) ==
  /\ TaskBoundary
  /\ rafPending > 0
  /\ RunCycleBody(FALSE, {}, c, w, AfterFire(frameId, rafPending), rafPending - 1)

LongFrameFires == \E c \in ReadCosts, w \in WriteCosts : LongFrameCallback(c, w)

LongInit == Init

LongNext ==
  \/ Seeds
  \/ Mutations
  \/ IOCallbacks
  \/ Microtask
  \/ LongFrameFires
  \/ IdleCallback
  \/ Settle

LongSpec == LongInit /\ [][LongNext]_vars

\* The browser runs every armed callback: the microtask, the initial
\* intersection entries, the frame callback and the idle callback.
FairSpec ==
  /\ LongSpec
  /\ WF_vars(Microtask)
  /\ WF_vars(IOInitial)
  /\ WF_vars(LongFrameFires)
  /\ WF_vars(IdleCallback)

\* BulkSpec: a long hidden queue left to the callbacks.  It starts where
\* h elements were reported off-screen and the owner then called
\* runCycle(true), which armed the idle callback (line 480); with v = 1 one
\* more element was reported on-screen since, and its frame is armed.
BulkSizes == {1, 2, 100, 101, 130}

BulkInit ==
  \E h \in BulkSizes, v \in 0..1 :
    /\ h + v > 0
    /\ qHidden = [i \in 1..h |-> i]
    /\ qVisible = [i \in 1..v |-> h + i]
    /\ io = [n \in 1..(h + v) |-> IF n <= h THEN "out" ELSE "in"]
    /\ idleId = "armed"
    /\ idlePending = 1
    /\ frameId = IF v > 0 THEN "armed" ELSE "none"
    /\ rafPending = v
    /\ metrics = [reads |-> 0, writes |-> 0, cacheHits |-> 0,
                  queuedVisible |-> 0, queuedHidden |-> h]
    /\ html = [n \in 1..(h + v) |-> FALSE]
    /\ style = [n \in 1..(h + v) |-> Transparent]
    /\ cache = [n \in 1..(h + v) |-> Null]
    /\ dirty = [n \in 1..(h + v) |-> FALSE]
    /\ last = [n \in {} |-> Null]
    /\ attached = [r \in {} |-> Null]
    /\ log = [x \in {} |-> <<>>]
    /\ resized = [n \in {} |-> Never]
    /\ attrs = [n \in {} |-> Null]
    /\ microtaskScheduled = FALSE
    /\ shadowMode = [r \in Roots |-> "none"]
    /\ shadowObservers = {}
    /\ mo = (h + v <= maxQueue)
    /\ backpressure = (h + v > maxQueue)
    /\ ro = {}
    /\ strayObservers = {}
    /\ consecutiveFrames = 0
    /\ nativeIdle = TRUE
    /\ destroyed = FALSE
    /\ threw = FALSE
    /\ streak = 0
    /\ settled = FALSE

BulkNext ==
  \/ IdleCallback
  \/ Microtask
  \/ LongFrameFires

BulkSpec == BulkInit /\ [][BulkNext]_vars

\* ToneSpec: one element of the document, an HTMLElement or not, under
\* any of the styles of ToneStyles; the owner seeds it and calls
\* runCycle(false), the page restyles the element and sets its
\* attributes, the callbacks run.  With one element the
\* hidden queue is empty whenever a cycle ends, so idle work is never
\* requested (line 646).
White == Style(Rgb(255, 255, 255), "none")
Black == Style(Rgb(0, 0, 0), "none")

ToneStyles ==
  {Black, White, Transparent, Surface,
   Style(Rgb(89, 89, 89), "none"), Style(Rgb(90, 90, 90), "none"),
   Style(Rgb(237, 237, 237), "none"), Style(Rgb(238, 238, 238), "none"),
   Style(Rgb(255, 0, 0), "none"), Style(Rgba(255, 255, 255, 1), "none"),
   Style(Rgba(0, 0, 0, 0), "gradient"),
   Style(Other("red"), "none"), Style(Other("hsl"), "none"),
   Style(Hex(<<15, 15, 15>>), "none"), Style(Hex(<<8, 0, 8, 0, 8, 0>>), "none")}

Probe == 1

ToneInit ==
  /\ InitWith({}, {})
  /\ nativeIdle
  /\ \E h \in BOOLEAN : html = [n \in Nodes |-> n = Probe /\ h]
  /\ \E s \in ToneStyles : style = [n \in Nodes |-> IF n = Probe THEN s ELSE Transparent]
  /\ last = [n \in {Probe} |-> Null]
  /\ attached = [h \in {} |-> Null]
  /\ log = [x \in {} |-> <<>>]
  /\ resized = [n \in {} |-> Never]
  /\ attrs = [n \in {} |-> Null]

ToneSeed == Seed({Probe})

ToneRestyles == \E s \in ToneStyles : Restyle(Probe, s)

ToneAttributeChanges == \E s \in ToneStyles : AttributeChange(Probe, s)

ToneRunCycles == \E cw \in Clocks : RunCycle(FALSE, {}, cw[1], cw[2])

ToneNext ==
  \/ ToneSeed
  \/ ToneRunCycles
  \/ ToneRestyles
  \/ ToneAttributeChanges
  \/ IOCallbacks
  \/ Microtask
  \/ LongFrameFires

ToneSpec == ToneInit /\ [][ToneNext]_vars

\* FairToneSpec: ToneSpec where the page and the owner may go quiet and
\* the browser runs every armed callback.  With one element queued at
\* most, backpressure never engages and the main MutationObserver stays
\* connected.
FairToneNext == ToneNext \/ Settle

FairToneSpec ==
  /\ ToneInit
  /\ [][FairToneNext]_vars
  /\ WF_vars(Microtask)
  /\ WF_vars(IOInitial)
  /\ WF_vars(LongFrameFires)

\* PageSpec: two elements of the document match the seed selectors.
\* Probe is an HTMLElement with a black or a white background whose class
\* and style attributes the page sets, Filler is not an HTMLElement; the
\* owner seeds and may destroy, the callbacks run.
PageStyles == {Black, White}

Filler == 2

PageInit ==
  /\ InitWith({}, {})
  /\ nativeIdle
  /\ html = [n \in Nodes |-> n = Probe]
  /\ \E s \in PageStyles : style = [n \in Nodes |-> IF n = Probe THEN s ELSE Transparent]
  /\ last = [n \in {Probe} |-> Null]
  /\ attached = [h \in {} |-> Null]
  /\ log = [x \in {"cycle"} |-> <<>>]
  /\ resized = [n \in {} |-> Never]
  /\ attrs = [n \in {} |-> Null]

PageAttributeChanges ==
  \E s \in PageStyles \cup {style[Probe]} : AttributeChange(Probe, s)

PageSeeds == \E S \in SUBSET {Probe, Filler} : Seed(S)

PageNext ==
  \/ PageSeeds
  \/ PageAttributeChanges
  \/ IOCallbacks
  \/ Microtask
  \/ FrameFires
  \/ IdleCallback
  \/ Destroy

PageSpec == PageInit /\ [][PageNext]_vars

\* ShadowSpec: a page whose scripts attach shadow roots, before and after
\* the owner calls destroy(); the calls of the patched attachShadow are
\* recorded per host.  Elements come in only through the shadow roots'
\* own observers and selectors.
Host == 1

ShadowInit ==
  /\ \E existing \in SUBSET {Host} : InitWith(existing, {})
  /\ nativeIdle
  /\ html = [n \in Nodes |-> FALSE]
  /\ style = [n \in Nodes |-> Transparent]
  /\ last = [n \in {} |-> Null]
  /\ attached = [h \in {Host} |-> Null]
  /\ log = [x \in {} |-> <<>>]
  /\ resized = [n \in {} |-> Never]
  /\ attrs = [n \in {} |-> Null]

ShadowAttaches ==
  \E init \in ShadowInits :
    \E S \in SUBSET NodesOf(Host) : AttachShadow(Host, init, S)

ShadowPatches == \E S \in SUBSET NodesOf(Host) : PatchShadow(Host, S)

ShadowMutations == \E S \in SUBSET NodesOf(Host) : OnMutate(Host, S)

ShadowNext ==
  \/ ShadowAttaches
  \/ ShadowPatches
  \/ ShadowMutations
  \/ IOCallbacks
  \/ Microtask
  \/ FrameFires
  \/ Destroy

ShadowSpec == ShadowInit /\ [][ShadowNext]_vars

\* IntakeSpec: a page whose shadow roots were all open when the scheduler
\* was constructed (findExistingShadows patched each of them); the owner
\* seeds, elements are added in the document and inside the shadow roots,
\* the callbacks run.
IntakeInit ==
  /\ \E seeded \in SUBSET (Nodes \ DocNodes) : InitWith(Roots, seeded)
  /\ PlainPage
  /\ nativeIdle

IntakeNext ==
  \/ Seeds
  \/ Mutations
  \/ IOCallbacks
  \/ Microtask
  \/ FrameFires
  \/ IdleCallback

IntakeSpec == IntakeInit /\ [][IntakeNext]_vars

\* ResizeSpec: a page whose elements change size: a container (Probe)
\* with fewer, exactly, or more direct children than
\* observeResizeMinChildren, next to the owner's seed() and the callbacks.
ChildCounts == {0, 9, 10, 11}

ResizeInit ==
  /\ InitWith({}, {})
  /\ nativeIdle
  /\ html = [n \in Nodes |-> FALSE]
  /\ style = [n \in Nodes |-> Transparent]
  /\ last = [n \in {} |-> Null]
  /\ attached = [h \in {} |-> Null]
  /\ log = [x \in {} |-> <<>>]
  /\ resized = [n \in {Probe} |-> Never]
  /\ attrs = [n \in {} |-> Null]

Resizes == \E c \in ChildCounts : Resize(Probe, c)

ResizeNext ==
  \/ PageSeeds
  \/ Resizes
  \/ IOCallbacks
  \/ Microtask
  \/ FrameFires

ResizeSpec == ResizeInit /\ [][ResizeNext]_vars

\* CallbackSpec: every callback the scheduler registers, on a page of two
\* document elements: intersection entries, childList and attribute
\* records of the main MutationObserver, size changes, the microtask, the
\* frame and the idle callback, next to the owner's seed().
CallbackInit ==
  /\ InitWith({}, {})
  /\ nativeIdle
  /\ html = [n \in Nodes |-> n = Probe]
  /\ style = [n \in Nodes |-> IF n = Probe THEN White ELSE Transparent]
  /\ last = [n \in {} |-> Null]
  /\ attached = [h \in {} |-> Null]
  /\ log = [x \in {"cycle"} |-> <<>>]
  /\ resized = [n \in {Probe} |-> Never]
  /\ attrs = [n \in {} |-> Null]

PageMutations == \E S \in SUBSET {Probe, Filler} : OnMutate(0, S)

\* The container has just enough children for line 357.
LargeResize == Resize(Probe, observeResizeMinChildren)

CallbackNext ==
  \/ PageSeeds
  \/ PageMutations
  \/ PageAttributeChanges
  \/ LargeResize
  \/ IOCallbacks
  \/ Microtask
  \/ FrameFires
  \/ IdleCallback

CallbackSpec == CallbackInit /\ [][CallbackNext]_vars

\* WriteSpec: one element of the document, an HTMLElement or not, dark,
\* bright or in between, with or without classes and inline declarations
\* of its own; the owner seeds it and calls runCycle(false), the page
\* restyles it through its stylesheets, the callbacks run.
Grey == Style(Rgb(128, 128, 128), "none")

WriteStyles == {Black, White, Grey}

Undeclared == [background |-> Null, color |-> Null]

InitialAttrs ==
  {[classes |-> {}, inline |-> Undeclared],
   [classes |-> {"card"},
    inline |-> [background |-> Declared("white", ""), color |-> Null]],
   [classes |-> {"card", "nox-bright"},
    inline |-> [background |-> Declared("white", "important"),
                color |-> Declared("black", "")]]}

WriteInit ==
  /\ InitWith({}, {})
  /\ nativeIdle
  /\ \E h \in BOOLEAN : html = [n \in Nodes |-> n = Probe /\ h]
  /\ \E s \in WriteStyles : style = [n \in Nodes |-> IF n = Probe THEN s ELSE Transparent]
  /\ \E a \in InitialAttrs : attrs = [n \in {Probe} |-> a]
  /\ last = [n \in {} |-> Null]
  /\ attached = [h \in {} |-> Null]
  /\ log = [x \in {"cycle"} |-> <<>>]
  /\ resized = [n \in {} |-> Never]

WriteRestyles == \E s \in WriteStyles : Restyle(Probe, s)

WriteNext ==
  \/ ToneSeed
  \/ ToneRunCycles
  \/ WriteRestyles
  \/ IOCallbacks
  \/ Microtask
  \/ LongFrameFires

WriteSpec == WriteInit /\ [][WriteNext]_vars

\* StallSpec: PageSpec's two elements under a clock that may advance
\* between the moment readStart is taken and the first test of the READ
\* loop (a tick of a coarse clock, a pause of the thread): by nothing, by
\* half the read budget, or by more than the read budget.
ReadStalls == {0, Ticks(readBudgetMs) \div 2, Ticks(readBudgetMs) + 1}

StalledFrameCallback(d, c, w) ==
  /\ TaskBoundary
  /\ rafPending > 0
  /\ consecutiveFrames < MaxFrames
  /\ RunCycleAt(FALSE, {}, d, c, w, AfterFire(frameId, rafPending), rafPending - 1)

StalledFrameFires ==
  \E d \in ReadStalls, c \in ReadCosts, w \in WriteCosts : StalledFrameCallback(d, c, w)

StallInit == PageInit

StallNext ==
  \/ PageSeeds
  \/ IOCallbacks
  \/ Microtask
  \/ StalledFrameFires
  \/ IdleCallback

StallSpec == StallInit /\ [][StallNext]_vars

TypeOK ==
  /\ Range(qVisible) \subseteq DOMAIN io /\ Range(qHidden) \subseteq DOMAIN io
  /\ consecutiveFrames \in 0..(FrameLimit + 3)
  /\ frameId \in {"none", "armed", "spent"} /\ rafPending \in Nat
  /\ idleId \in {"none", "armed", "spent"} /\ idlePending \in Nat
  /\ (Armed(frameId) => rafPending > 0) /\ (Armed(idleId) => idlePending > 0)
  /\ \A n \in DOMAIN cache :
       cache[n] # Null => cache[n].classification \in {"already-dark", "bright-bg", "mid"}
  /\ metrics.cacheHits \in 0..MaxCount
  /\ \A n \in DOMAIN resized : resized[n] \in {Never} \cup ChildCounts
  /\ \A x \in DOMAIN log :
       \A i \in 1..Len(log[x]) :
         /\ log[x][i].op \in {"classify", "applyStable"}
         /\ log[x][i].el \in DOMAIN io
         /\ log[x][i].classification \in {"already-dark", "bright-bg", "mid"}
  /\ \A h \in DOMAIN attached : attached[h] # Null => attached[h].receiver = h

\* ------------------------------------------------------------------------
\* C1  Queue disjointness: in every reachable state no node is in both the
\*     visible queue and the hidden queue.
\* ------------------------------------------------------------------------
C1_QueuesDisjoint == Range(qVisible) \cap Range(qHidden) = {}

\* Both queues hold nodes, one of them moved there by a visibility change.
C1_Witness ==
  /\ Len(qVisible) > 0 /\ Len(qHidden) > 0
  /\ \E n \in Range(qHidden) : io[n] = "out"
  /\ metrics.reads > 0

\* ------------------------------------------------------------------------
\* C2  Eventual convergence: once the page and the owner have gone quiet,
\*     under fair firing of the armed callbacks every admitted node is
\*     eventually dequeued and both queues become empty.
\* ------------------------------------------------------------------------
C2_Converges ==
  settled ~> (/\ Len(qVisible) = 0 /\ Len(qHidden) = 0
              /\ \A n \in DOMAIN io : io[n] # "new")

\* ------------------------------------------------------------------------
\* C3  At any time at most one frame callback and at most one idle callback
\*     are pending.
\* ------------------------------------------------------------------------
C3_OnePending == rafPending <= 1 /\ idlePending <= 1

\* ------------------------------------------------------------------------
\* C4  Circuit breaker: the 61st runCycle invocation in a row that finds the
\*     visible queue non-empty (none of the 60 before it found or left it
\*     empty) calls destroy(), processes no node and leaves the watchers
\*     disconnected.
\* ------------------------------------------------------------------------
Disconnected ==
  /\ \A n \in DOMAIN io : io[n] = "off"
  /\ ~mo
  /\ ro = {}
  /\ shadowObservers = {}
  /\ strayObservers = {}

C4_BreakerAt61 ==
  [][(LongFrameFires /\ streak = 60 /\ Len(qVisible) > 0)
       => (destroyed' /\ Disconnected' /\ qVisible' = qVisible /\ metrics' = metrics)]_vars

\* ------------------------------------------------------------------------
\* C5  When destroy() returns every watcher is disconnected, the registry
\*     of per-boundary watchers is empty, and no frame callback and no idle
\*     callback remains pending.
\* ------------------------------------------------------------------------
C5_DestroyLeavesNothing ==
  [][Destroy => (Disconnected' /\ rafPending' = 0 /\ idlePending' = 0)]_vars

\* ------------------------------------------------------------------------
\* C6  destroy() is idempotent: after a call to destroy(), a further call
\*     does not fail and changes nothing.
\* ------------------------------------------------------------------------
\* destroy() called in this state would change no variable.
DestroyChangesNothing ==
  /\ \A n \in DOMAIN io : io[n] = "off"
  /\ ~mo /\ ro = {} /\ shadowObservers = {}
  /\ ~Armed(frameId)
  /\ CancelIdleThrows \/ ~Armed(idleId)
  /\ destroyed

C6_DestroyIdempotent ==
  [][Destroy => (~CancelIdleThrows' /\ DestroyChangesNothing')]_vars

\* ------------------------------------------------------------------------
\* C7  Backpressure engagement: when the scheduleWork microtask fires with
\*     |visible| + |hidden| > maxQueue, afterwards the backpressure flag is
\*     set and the main MutationObserver is disconnected; when it fires with
\*     a total of maxQueue or less, backpressure is not engaged by it.
\* ------------------------------------------------------------------------
C7_Engagement ==
  [][Microtask =>
       LET total == Len(qVisible) + Len(qHidden)
       IN  /\ total > maxQueue => (backpressure' /\ ~mo')
           /\ (total <= maxQueue /\ ~backpressure) => (~backpressure' /\ mo' = mo)]_vars

\* Backpressure is engaged on a total above the ceiling.
C7_Witness ==
  /\ backpressure /\ ~mo /\ ~microtaskScheduled
  /\ Len(qVisible) + Len(qHidden) > maxQueue

\* ------------------------------------------------------------------------
\* C8  Backpressure release: once backpressure is engaged and the total
\*     queued has dropped below 0.8 * maxQueue, backpressure is eventually
\*     released, whatever the page does or does not do afterwards.
\* ------------------------------------------------------------------------
DrainedUnderBackpressure ==
  backpressure /\ 10 * (Len(qVisible) + Len(qHidden)) < 8 * maxQueue

C8_Release == DrainedUnderBackpressure ~> ~backpressure

\* ------------------------------------------------------------------------
\* C9  Each firing of the idle callback moves exactly min(100, |hidden|)
\*     nodes, the oldest of the hidden queue, to the end of the visible
\*     queue in their order; |visible| + |hidden| is unchanged.
\* ------------------------------------------------------------------------
C9_IdlePromotion ==
  [][IdleCallback =>
       LET m == IF Len(qHidden) < 100 THEN Len(qHidden) ELSE 100
       IN  /\ qVisible' = qVisible \o SubSeq(qHidden, 1, m)
           /\ qHidden' = SubSeq(qHidden, m + 1, Len(qHidden))
           /\ Len(qVisible') + Len(qHidden') = Len(qVisible) + Len(qHidden)]_vars

\* A firing has moved 100 nodes behind the one already visible and left
\* the rest hidden.
C9_Witness ==
  /\ Len(qVisible) = 101 /\ Len(qHidden) > 0 /\ idleId = "none"
  /\ qVisible[1] > qVisible[2]

\* ------------------------------------------------------------------------
\* C10 Budget bounding: with a clock advancing c > 0 per classification, one
\*     runCycle reads at most floor(readBudget / c) + 1 nodes, from the
\*     front of the visible queue, and the others stay queued in order; at
\*     4 ms and 0.1 ms a 1000-node queue is not drained in one cycle.
\* ------------------------------------------------------------------------
\* What one cycle reads of a 1000-node queue at 0.1 ms per classification.
ReadsOf1000 == ReadCount(1000, 1)

C10_ReadBudget ==
  [][\A c \in ReadCosts, w \in WriteCosts :
       LET k == Len(qVisible) - Len(qVisible')
           Within == /\ k >= 0
                     /\ k <= (Ticks(readBudgetMs) \div c) + 1
                     /\ qVisible' = SubSeq(qVisible, k + 1, Len(qVisible))
                     /\ ReadsOf1000 <= (Ticks(readBudgetMs) \div 1) + 1
                     /\ ReadsOf1000 < 1000
       IN  Within \/ ~LongFrameCallback(c, w)]_vars

\* A cycle at 0.1 ms per classification has stopped on its budget after
\* 41 of 101 nodes, and the other 60 are still queued.
C10_Witness ==
  /\ Len(qVisible) = 60 /\ metrics.queuedVisible = 60
  /\ metrics.reads > 0 /\ qVisible[1] = 41

\* ------------------------------------------------------------------------
\* C11 Threshold classification: whenever classify returned a verdict for
\*     an HTMLElement whose background colour parses, with luminance Y, the
\*     verdict is already-dark iff Y < 0.10, bright-bg iff Y > 0.85 and mid
\*     otherwise; Y = 0.10 exactly and Y = 0.85 exactly both give mid.
\* ------------------------------------------------------------------------
\* The verdict the thresholds give on every luminance from 0 to 1 in steps
\* of a thousandth, the two thresholds among them.
ThresholdsRight ==
  /\ \A t \in 0..1000 :
       LET Y == t * 100
       IN  /\ ToneOf(Y) = "already-dark" <=> Y < 10000
           /\ ToneOf(Y) = "bright-bg" <=> Y > 85000
           /\ ToneOf(Y) = "mid" <=> (Y >= 10000 /\ Y <= 85000)
  /\ ToneOf(10000) = "mid" /\ ToneOf(85000) = "mid"

FallsBackToMid(key) ==
  \/ key[2] = "img"
  \/ key[1].fn \notin {"rgb", "rgba", "#"}
  \/ key[1] = Rgba(0, 0, 0, 0)

C12_MidFallback ==
  \A n \in DOMAIN last :
    (html[n] /\ last[n] # Null /\ FallsBackToMid(last[n].styleKey)) =>
      /\ last[n].classification = "mid"
      /\ cache[n] = [classification |-> "mid", styleKey |-> last[n].styleKey]
      /\ ~threw

\* ------------------------------------------------------------------------
\* C13 Classification idempotence: when a frame classifies a node that was
\*     classified before, with the fingerprint it had then and no
\*     invalidation since, cacheHits goes up by one and the verdict is the
\*     one returned before.
\* ------------------------------------------------------------------------
C13_Idempotent ==
  [][\A n \in DOMAIN last :
       (/\ LongFrameFires \/ ToneRunCycles
        /\ qVisible = <<n>>
        /\ last[n] # Null /\ last[n].styleKey = Key(n)
        /\ metrics.cacheHits < MaxCount)
         => /\ metrics'.cacheHits = metrics.cacheHits + 1
            /\ last'[n].classification = last[n].classification]_vars

\* ------------------------------------------------------------------------
\* C14 Cache invalidation: when a frame classifies a node whose class or
\*     style attribute was set since it was last classified, cacheHits is
\*     not incremented, whatever the state of the scheduler (backpressure
\*     engaged or not) and whether or not the fingerprint changed.
\* ------------------------------------------------------------------------
C14_Invalidation ==
  [][\A n \in DOMAIN dirty :
       (FrameFires /\ qVisible = <<n>> /\ dirty[n])
         => metrics'.cacheHits = metrics.cacheHits]_vars

\* ------------------------------------------------------------------------
\* C15 A node leaves tracking when it is dequeued: a node runCycle removed
\*     from the visible queue is in neither queue afterwards, and a node
\*     enters a queue it was in neither of only on the initial entry that
\*     follows its admission by enqueue, never on a later visibility
\*     transition alone.
\* ------------------------------------------------------------------------
C15_LeavesTracking ==
  [][/\ \A n \in Range(qVisible) \ Range(qVisible') :
          qHidden' = qHidden => n \notin Queued'
     /\ \A n \in Queued' \ Queued : io[n] = "new"]_vars

\* ------------------------------------------------------------------------
\* C16 The patched attachShadow always delegates: the original is called
\*     with the receiver and the argument the page used, and the page gets
\*     exactly what the original gave (the root it created, or the
\*     exception it raised), for open and closed mode and also after
\*     destroy().
\* ------------------------------------------------------------------------
C16_Delegates ==
  \A h \in DOMAIN attached :
    attached[h] # Null =>
      /\ attached[h].call.receiver = attached[h].receiver
      /\ attached[h].call.init = attached[h].init
      /\ attached[h].result = attached[h].orig
      /\ attached[h].orig.error = "" =>
            /\ attached[h].result.root = h
            /\ attached[h].result.mode = attached[h].init.mode
            /\ shadowMode[h] = attached[h].init.mode

C16_Witness ==
  \E h \in DOMAIN attached :
    /\ attached[h] # Null
    /\ attached[h].destroyed
    /\ attached[h].init = [mode |-> "open", delegatesFocus |-> TRUE]
    /\ attached[h].result = [root |-> h, mode |-> "open", error |-> ""]
    /\ h \in shadowObservers

\* ------------------------------------------------------------------------
\* C17 The counters reads, writes and cacheHits are monotonic: no step of
\*     the scheduler (runCycle from a frame, destroy, backpressure engaging
\*     or releasing, idle promotion) decreases or resets them.
\* ------------------------------------------------------------------------
C17_Monotonic ==
  [][/\ getMetrics'.reads >= getMetrics.reads
     /\ getMetrics'.writes >= getMetrics.writes
     /\ getMetrics'.cacheHits >= getMetrics.cacheHits]_vars

C17_Witness ==
  /\ destroyed
  /\ getMetrics.reads > 0
  /\ getMetrics.writes > 0
  /\ getMetrics.cacheHits > 0

\* ------------------------------------------------------------------------
\* C18 getMetrics() reports the current queue sizes: at any moment it can
\*     be called, queuedVisible is the number of nodes in the visible queue
\*     and queuedHidden the number of nodes in the hidden queue.
\* ------------------------------------------------------------------------
C18_CurrentSizes ==
  /\ getMetrics.queuedVisible = Len(qVisible)
  /\ getMetrics.queuedHidden = Len(qHidden)

\* ------------------------------------------------------------------------
\* C19 Whenever the coalesced scheduleWork step runs while no frame
\*     callback is pending and the visible queue is non-empty, exactly one
\*     frame callback is scheduled, also after earlier frame callbacks have
\*     fired and drained the queue.
\* ------------------------------------------------------------------------
C19_FrameScheduled ==
  [][(Microtask /\ rafPending = 0 /\ Len(qVisible) > 0) => rafPending' = 1]_vars

\* ------------------------------------------------------------------------
\* C20 Hidden-queue liveness: whenever the visible queue is empty and the
\*     hidden queue is not, an idle callback is eventually requested and
\*     fires, so hidden nodes eventually reach the visible queue.  Stated
\*     in its weakest form: the scheduler does not stay forever with hidden
\*     nodes only and no idle callback requested.
\* ------------------------------------------------------------------------
HiddenOnly == Len(qVisible) = 0 /\ Len(qHidden) > 0

C20_HiddenLiveness == HiddenOnly ~> (idlePending > 0 \/ ~HiddenOnly)

\* ------------------------------------------------------------------------
\* C21 The circuit breaker trips only on mutation feedback caused by
\*     writes: a backlog of nodes already queued, with no admission at all
\*     while it is drained, never makes the scheduler destroy itself.
\* ------------------------------------------------------------------------
C21_BacklogNeverTrips == ~destroyed

\* ------------------------------------------------------------------------
\* C22 The visible queue drains before the hidden queue is touched: when
\*     an idle promotion moves nodes out of the hidden queue, the visible
\*     queue is empty at the moment the promotion fires.
\* ------------------------------------------------------------------------
C22_VisibleFirst ==
  [][(IdleCallback /\ qHidden' # qHidden) => Len(qVisible) = 0]_vars

\* ------------------------------------------------------------------------
\* C23 Lossy write phase: in each cycle the elements are read in queue
\*     order, the pairs written are a prefix, in read order, of the pairs
\*     read, and a pair read but not written is dropped: its element is
\*     left as it was and is in neither queue after the cycle.
\* ------------------------------------------------------------------------
Reads(calls) == SelectSeq(calls, LAMBDA e : e.op = "classify")

Writes(calls) == SelectSeq(calls, LAMBDA e : e.op = "applyStable")

C23_LossyWrite ==
  [][LET reads == Reads(log'["cycle"])
         writes == Writes(log'["cycle"])
         Lossy ==
           /\ Len(writes) <= Len(reads)
           /\ Len(reads) <= Len(qVisible)
           /\ \A i \in 1..Len(reads) : reads[i].el = qVisible[i]
           /\ \A i \in 1..Len(writes) :
                /\ writes[i].el = reads[i].el
                /\ writes[i].classification = reads[i].classification
                /\ (html[writes[i].el] /\ writes[i].classification = "bright-bg")
                     => style'[writes[i].el] = Surface
           /\ \A i \in (Len(writes) + 1)..Len(reads) :
                /\ reads[i].el \notin Queued'
                /\ style'[reads[i].el] = style[reads[i].el]
     IN  Lossy \/ ~FrameFires]_vars

\* A cycle read the filler and then the white element, wrote only the
\* filler, and the white element is left white and unqueued.
C23_Witness ==
  /\ log["cycle"] = <<Call("classify", <<Filler, "mid">>),
                      Call("classify", <<Probe, "bright-bg">>),
                      Call("applyStable", <<Filler, "mid">>)>>
  /\ style[Probe] = White
  /\ Probe \notin Queued
  /\ cache[Probe] # Null

\* ------------------------------------------------------------------------
\* C24 Within one cycle READ strictly precedes WRITE: every classify() of
\*     the cycle is called before its first applyStable(), and an element
\*     is written only with the classification read for it in that cycle.
\* ------------------------------------------------------------------------
C24_ReadBeforeWrite ==
  LET calls == log["cycle"]
  IN  \A i \in 1..Len(calls) :
        calls[i].op = "applyStable" =>
          /\ \A j \in 1..Len(calls) : calls[j].op = "classify" => j < i
          /\ \E j \in 1..(i - 1) :
               /\ calls[j].op = "classify"
               /\ calls[j].el = calls[i].el
               /\ calls[j].classification = calls[i].classification

\* A cycle read both elements and then wrote both, the white one first.
C24_Witness ==
  /\ log["cycle"] = <<Call("classify", <<Probe, "bright-bg">>),
                      Call("classify", <<Filler, "mid">>),
                      Call("applyStable", <<Probe, "bright-bg">>),
                      Call("applyStable", <<Filler, "mid">>)>>
  /\ style[Probe] = Surface

\* ------------------------------------------------------------------------
\* C25 Hysteresis: when the scheduleWork microtask fires with
\*     0.8 * maxQueue <= |visible| + |hidden| <= maxQueue, neither the
\*     backpressure flag nor the connection of the main MutationObserver
\*     changes; it engages only on a total strictly above maxQueue and
\*     releases only on a total strictly below 0.8 * maxQueue.
\* ------------------------------------------------------------------------
\* The release test on every total up to the ceiling, for ceilings whose
\* 0.8 is a whole number and for the default of 5000.
Ceilings == {1, 5, 10, 5000}

ReleaseBelowBand ==
  \A mq \in Ceilings : \A total \in 0..(mq + 1) :
    ReleasesAt(total, mq) <=> 5 * total < 4 * mq

C25_Hysteresis ==
  [][Microtask =>
       LET total == Len(qVisible) + Len(qHidden)
       IN  /\ ReleaseBelowBand
           /\ (10 * total >= 8 * maxQueue /\ total <= maxQueue)
                => (backpressure' = backpressure /\ mo' = mo)
           /\ (backpressure' /\ ~backpressure) => total > maxQueue
           /\ (~backpressure' /\ backpressure) => 10 * total < 8 * maxQueue]_vars

\* Backpressure is still engaged, and the observer still disconnected,
\* with a total inside the band and the microtask run.
C25_Witness ==
  /\ backpressure /\ ~mo /\ ~microtaskScheduled
  /\ Len(qVisible) + Len(qHidden) = maxQueue
  /\ metrics.reads > 0

\* ------------------------------------------------------------------------
\* C26 While backpressure is engaged, intake from mutations is suspended:
\*     no mutation callback, of the main tree or of a patched shadow root,
\*     hands an element to enqueue (which registers it with the
\*     IntersectionObserver, to be placed in a queue) until release.
\* ------------------------------------------------------------------------
C26_IntakeSuspended ==
  [][(backpressure /\ Mutations) =>
       (io' = io /\ microtaskScheduled' = microtaskScheduled)]_vars

\* ------------------------------------------------------------------------
\* C27 enqueue(node) is a no-op if the node is in the visible or the
\*     hidden queue: the queues keep their content and order and no
\*     scheduleWork is requested.  Otherwise the node is registered with
\*     the IntersectionObserver exactly once (a node it already observes
\*     gets no second registration) and scheduleWork is called.  Stated
\*     on enqueue as seed() calls it for one matched element.
\* ------------------------------------------------------------------------
C27_Enqueue ==
  [][\A n \in {Probe, Filler} :
       Seed({n}) =>
         /\ qVisible' = qVisible /\ qHidden' = qHidden
         /\ \A m \in DOMAIN io : m # n => io'[m] = io[m]
         /\ IF n \in Queued
              THEN io'[n] = io[n] /\ microtaskScheduled' = microtaskScheduled
              ELSE /\ io'[n] = IF io[n] = "off" THEN "new" ELSE io[n]
                   /\ microtaskScheduled']_vars

\* A node was just registered and scheduleWork requested while another
\* node, registered earlier, sits in a queue.
C27_Witness ==
  \E n, m \in {Probe, Filler} :
    /\ io[n] = "new" /\ n \notin Queued /\ microtaskScheduled
    /\ m \in Queued /\ io[m] # "new"

\* ------------------------------------------------------------------------
\* C28 On an attribute change (class or style) observed on a node, the
\*     node's cache entry is invalidated and the node is re-enqueued: it
\*     is eventually in the visible or the hidden queue again, also when it
\*     had been processed before.  Stated from the moment the page goes
\*     quiet, so that nothing keeps the callbacks from running.
\* ------------------------------------------------------------------------
\* An attribute record for the element was delivered to onMutate and the
\* element has not been classified since.
AttributeObserved == mo /\ dirty[Probe] /\ cache[Probe] = Null

QuietAfterAttribute == settled /\ AttributeObserved

ProbeQueued == Probe \in Queued

C28_Requeued == QuietAfterAttribute ~> ProbeQueued

\* ------------------------------------------------------------------------
\* C29 ResizeObserver admission: when a container changes size and has at
\*     least observeResizeMinChildren (10, inclusive) direct children it is
\*     enqueued (registered with the IntersectionObserver unless already,
\*     and scheduleWork requested); with fewer children it is not.
\* ------------------------------------------------------------------------
C29_ResizeAdmission ==
  [][\A c \in ChildCounts :
       Resize(Probe, c) =>
         IF c >= 10
           THEN Probe \notin Queued =>
                  /\ io'[Probe] = IF io[Probe] = "off" THEN "new" ELSE io[Probe]
                  /\ microtaskScheduled'
           ELSE io' = io /\ microtaskScheduled' = microtaskScheduled]_vars

\* ------------------------------------------------------------------------
\* C30 Every MutationObserver the scheduler attaches to a shadow root (at
\*     start-up, through the attachShadow hook, or through any sequence of
\*     patchShadow calls) is held in the registry keyed by its root until
\*     teardown, so that destroy() disconnects every one of them: no
\*     connected observer is ever outside the registry.
\* ------------------------------------------------------------------------
C30_RegistryComplete == strayObservers = {}

\* ------------------------------------------------------------------------
\* C31 Visibility transitions: after an enter-viewport entry for a node the
\*     node is in the visible queue and not in the hidden queue, and
\*     scheduleWork has been requested; after an exit-viewport entry it is
\*     in the hidden queue and not in the visible queue.
\* ------------------------------------------------------------------------
C31_Transitions ==
  [][\A es \in Batches :
       LET Placed ==
             /\ microtaskScheduled'
             /\ \A i \in 1..Len(es) :
                  IF es[i][2]
                    THEN /\ es[i][1] \in Range(qVisible')
                         /\ es[i][1] \notin Range(qHidden')
                    ELSE /\ es[i][1] \in Range(qHidden')
                         /\ es[i][1] \notin Range(qVisible')
       IN  IOCallback(es) => Placed]_vars

\* One element was reported on-screen after it had been off-screen, the
\* other off-screen after it had been on-screen, and scheduleWork is
\* requested.
C31_Witness ==
  /\ qVisible = <<Probe>> /\ qHidden = <<Filler>>
  /\ io[Probe] = "in" /\ io[Filler] = "out"
  /\ microtaskScheduled

\* ------------------------------------------------------------------------
\* C32 No reentrant processing: the visibility, mutation and resize
\*     callbacks only change queue membership (and the cache entry an
\*     attribute record invalidates) or request scheduling; none of them
\*     runs a cycle: they read and write no element and arm no frame or
\*     idle callback themselves.  A cycle therefore sees the queues change
\*     by its own reads only: the visible queue loses a prefix, the hidden
\*     queue is untouched.
\* ------------------------------------------------------------------------
ObserverCallbacks ==
  IOCallbacks \/ PageMutations \/ PageAttributeChanges \/ LargeResize

C32_NoReentry ==
  [][LET NoCycle ==
           /\ metrics' = metrics /\ log' = log
           /\ consecutiveFrames' = consecutiveFrames
           /\ frameId' = frameId /\ rafPending' = rafPending
           /\ idleId' = idleId /\ idlePending' = idlePending
           /\ \A n \in DOMAIN cache : cache'[n] \in {cache[n], Null}
         OwnReadsOnly ==
           /\ qHidden' = qHidden
           /\ \E k \in 0..Len(qVisible) : qVisible' = DropFirst(qVisible, k)
           /\ Len(Reads(log'["cycle"])) = Len(qVisible) - Len(qVisible')
     IN  /\ NoCycle \/ ~ObserverCallbacks
         /\ OwnReadsOnly \/ ~FrameFires]_vars

\* After a cycle that read the element, an attribute record invalidated
\* its cache entry and an intersection entry put the other element in the
\* hidden queue, while the frame the cycle's successor needs is only
\* requested through the microtask.
C32_Witness ==
  /\ Len(log["cycle"]) > 0 /\ metrics.reads > 0
  /\ dirty[Probe] /\ cache[Probe] = Null
  /\ qHidden = <<Filler>>
  /\ microtaskScheduled

C34_TeardownFinal ==
  [][(destroyed /\ (Microtask \/ ShadowAttaches \/ FrameFires)) =>
       /\ mo' => mo
       /\ \A n \in DOMAIN io : io'[n] # "off" => io[n] # "off"
       /\ shadowObservers' \subseteq shadowObservers
       /\ strayObservers' \subseteq strayObservers
       /\ rafPending' <= rafPending
       /\ idlePending' <= idlePending
       /\ metrics' = metrics]_vars

\* ------------------------------------------------------------------------
\* C35 Before destroy() is called, the backpressure flag is true exactly
\*     when the main MutationObserver is disconnected.
\* ------------------------------------------------------------------------
C35_FlagMatchesObserver == ~destroyed => (backpressure <=> ~mo)

\* Backpressure was engaged and has been released: the element's
\* attribute was set while the observer was disconnected (its cache entry
\* survived), and the observer is connected again.
C35_Witness ==
  /\ ~destroyed /\ ~backpressure /\ mo
  /\ dirty[Probe] /\ cache[Probe] # Null

\* ------------------------------------------------------------------------
\* C36 Progress per cycle: every runCycle that starts with a non-empty
\*     visible queue and is not stopped by the circuit breaker removes at
\*     least one node from the visible queue and increments reads by at
\*     least one, for any non-negative read budget, and the nodes it reads
\*     are the front of the visible queue in order.
\* ------------------------------------------------------------------------
C36_Progress ==
  [][LET reads == Reads(log'["cycle"])
         Progress ==
           /\ Len(reads) >= 1
           /\ Len(qVisible') < Len(qVisible)
           /\ metrics.reads < MaxCount => metrics'.reads > metrics.reads
           /\ \A i \in 1..Len(reads) : reads[i].el = qVisible[i]
     IN  (/\ StalledFrameFires
          /\ Len(qVisible) > 0
          /\ ~BreakerTrips(consecutiveFrames)) => Progress]_vars

====
